---- MODULE Spec2Model ----
(***************************************************************************)
(* onboarder.py: the task execution engine (TaskRunner) and the handlers   *)
(* of the presentation layer (TasksView / MainApp) that drive it.          *)
(*                                                                         *)
(* asyncio is cooperative: a coroutine runs without interruption from one  *)
(* suspension point to the next.  LogView.write holds no await, so the     *)
(* only suspension points of TaskRunner.run are inside _execute, while the *)
(* child's output is read and its exit awaited.  Each action below is one  *)
(* such uninterrupted stretch of a handler or coroutine.                   *)
(***************************************************************************)
EXTENDS Integers, Sequences, FiniteSets, TLC

\* ------------------------------------------------------------------ bounds
MaxDeps == 2        \* longest depends_on list drawn for the scheduler
MaxReq == 2         \* longest requested id list drawn for the scheduler
MaxFaults == 1      \* launches that raise within one uninterrupted stretch

\* ------------------------------------------------------------- definitions
\* The ids of the definition list, in definition order, and one id that no
\* definition carries (a dangling prerequisite or an unknown request).
TaskIds == <<"a", "b", "c">>
Ids == {TaskIds[k] : k \in 1..Len(TaskIds)}
Unknown == "x"
AnyId == Ids \cup {Unknown}

\* The run requests of one behaviour: a first and a second one, which may
\* overlap (each is its own asyncio task).
Runs == {1, 2}

\* The sets of ids whose launch raises, as one stretch of the loop may meet.
FaultSets == {F \in SUBSET Ids : Cardinality(F) <= MaxFaults}

\* Exit codes a child process may return (0: success).
ExitCodes == {0, 1}

VARIABLES
    depends_on,     \* Task.depends_on of every definition: id -> list of ids
    status,         \* TaskRunner.status: id -> TaskStatus
    cancel_event,   \* TaskRunner.cancel_event (is_set)
    frames,         \* the live _run coroutines: where each is suspended
    obs,            \* per coroutine, what the run has done so far (history)
    lin             \* the scheduler taken alone: request and computed order

vars == <<depends_on, status, cancel_event, frames, obs, lin>>

\* --------------------------------------------------------------- sequences
Range(s) == {s[k] : k \in 1..Len(s)}

SeqsUpTo(S, n) == UNION {[1..k -> S] : k \in 0..n}

Distinct(s) == \A i, j \in 1..Len(s) : i # j => s[i] # s[j]

\* The position of x in s (0 when absent).
IndexOf(s, x) == IF x \in Range(s) THEN CHOOSE k \in 1..Len(s) : s[k] = x ELSE 0

\* ---------------------------------------------------------------- TaskStatus
\* Optional fields: rc is <<>> (None) or <<code>>; a timestamp is "None" or
\* "set" (the clock's value is not modelled, only whether one was recorded).
TaskStatus(tid) ==
    [id |-> tid, state |-> "pending", start_ts |-> "None", end_ts |-> "None",
     rc |-> <<>>, message |-> ""]

\* self.status.get(d, TaskStatus(d)): an id never touched reads as the default.
StatusGet(st, d) == IF d \in DOMAIN st THEN st[d] ELSE TaskStatus(d)

\* _set_status: patch the named fields of the entry, keep the others.
set_status(st, tid, kwargs) ==
    [st EXCEPT ![tid] =
        [f \in DOMAIN @ |-> IF f \in DOMAIN kwargs THEN kwargs[f] ELSE @[f]]]

\* ------------------------------------------------------------------ scheduler
\* id_to_task = {t.id: t for t in tasks}: membership is what the code asks.
id_to_task(deps) == DOMAIN deps

\* Mutant of to_run: an empty request stays empty.
to_run_as_given(selected) == selected

\* to_run = list(selected) if selected else [t.id for t in tasks]
to_run(selected) == IF selected # <<>> THEN selected ELSE TaskIds

\* dfs(tid) with its closure variables seen and ordered carried in acc; acc
\* also keeps the order in which seen.add was called (visits, history only).
RECURSIVE dfs(_, _, _), dfs_deps(_, _, _, _)
\* Mutant of dfs: the id is emitted before its prerequisites (pre-order).
dfs_preorder(deps, acc, tid) ==
    IF tid \in acc.seen THEN acc
    ELSE dfs_deps(deps,
                  [acc EXCEPT !.seen = @ \cup {tid}, !.visits = Append(@, tid),
                              !.ordered = Append(@, tid)],
                  deps[tid], 1)

dfs(deps, acc, tid) ==
    IF tid \in acc.seen THEN acc
    ELSE LET entered == [acc EXCEPT !.seen = @ \cup {tid}, !.visits = Append(@, tid)]
             after == dfs_deps(deps, entered, deps[tid], 1)
         IN [after EXCEPT !.ordered = Append(@, tid)]

\* Mutant of dfs_deps: only the first prerequisite listed is followed.
dfs_deps_first_only(deps, acc, ds, k) ==
    IF k > Len(ds) \/ k > 1 THEN acc
    ELSE dfs_deps(deps,
                  IF ds[k] \in id_to_task(deps) THEN dfs(deps, acc, ds[k]) ELSE acc,
                  ds, k + 1)

\* for dep in id_to_task[tid].depends_on: if dep in id_to_task: dfs(dep)
dfs_deps(deps, acc, ds, k) ==
    IF k > Len(ds) THEN acc
    ELSE dfs_deps(deps,
                  IF ds[k] \in id_to_task(deps) THEN dfs(deps, acc, ds[k]) ELSE acc,
                  ds, k + 1)

\* for tid in to_run: if tid in id_to_task: dfs(tid)
RECURSIVE dfs_all(_, _, _, _)
dfs_all(deps, acc, req, k) ==
    IF k > Len(req) THEN acc
    ELSE dfs_all(deps,
                 IF req[k] \in id_to_task(deps) THEN dfs(deps, acc, req[k]) ELSE acc,
                 req, k + 1)

\* final_order: ordered with later repeats dropped.
RECURSIVE dedupe(_, _, _)
\* Mutant of dedupe: an id is put in front of those already kept.
dedupe_prepend(ordered, k, out) ==
    IF k > Len(ordered) THEN out
    ELSE dedupe(ordered, k + 1,
                IF ordered[k] \in Range(out) THEN out ELSE <<ordered[k]>> \o out)

dedupe(ordered, k, out) ==
    IF k > Len(ordered) THEN out
    ELSE dedupe(ordered, k + 1,
                IF ordered[k] \in Range(out) THEN out ELSE Append(out, ordered[k]))

\* ordered = [], seen = set(), then the loop over to_run (lines 203-217).
traversal(deps, selected) ==
    dfs_all(deps, [seen |-> {}, ordered |-> <<>>, visits |-> <<>>], to_run(selected), 1)

final_order(deps, selected) == dedupe(traversal(deps, selected).ordered, 1, <<>>)

\* ------------------------------------------------- graphs (for the claims)
\* d is a direct in-set prerequisite of t.
Edge(deps, t, d) == d \in Range(deps[t]) /\ d \in id_to_task(deps)

\* Ids reachable from the set S along prerequisite edges (S included).
RECURSIVE Closure(_, _)
Closure(deps, S) ==
    LET more == S \cup {d \in id_to_task(deps) : \E t \in S : Edge(deps, t, d)}
    IN IF more = S THEN S ELSE Closure(deps, more)

\* The proper (transitive) prerequisites of t.
Prereqs(deps, t) == Closure(deps, {d \in id_to_task(deps) : Edge(deps, t, d)})

Acyclic(deps) == \A t \in id_to_task(deps) : t \notin Prereqs(deps, t)

\* ------------------------------------------------------------ run loop
MsgCanceled == "Canceled before start"
MsgDryRun == "Dry-run (skipped execution)"
MsgFault == "exception"                       \* str(e) of a launch or stream fault
MsgSkipped(d) == "Skipped due to failed dependency: " \o d
MsgRc(rc) == "rc=" \o ToString(rc)

\* Mutant of failed_dep: the prerequisites are looked at in the order of the
\* definition list, not in the order depends_on lists them.
failed_dep_definition_order(st, ds) ==
    LET hits == {k \in 1..Len(TaskIds) :
                    /\ TaskIds[k] \in Range(ds)
                    /\ StatusGet(st, TaskIds[k]).state \in {"failed", "canceled"}}
    IN IF hits = {} THEN <<>>
       ELSE <<TaskIds[CHOOSE k \in hits : \A h \in hits : k <= h]>>

\* Mutant of failed_dep: only the first prerequisite is looked at.
failed_dep_first_only(st, ds) ==
    IF ds # <<>> /\ StatusGet(st, ds[1]).state \in {"failed", "canceled"}
    THEN <<ds[1]>> ELSE <<>>

\* next((d for d in task.depends_on if status.get(d, ...).state in
\* {"failed", "canceled"}), None): <<>> for None, else <<d>>.
failed_dep(st, ds) ==
    LET hits == {k \in 1..Len(ds) : StatusGet(st, ds[k]).state \in {"failed", "canceled"}}
    IN IF hits = {} THEN <<>>
       ELSE <<ds[CHOOSE k \in hits : \A h \in hits : k <= h]>>

\* Mutant of visit: the cancel flag is not consulted.
visit_ignores_cancel(st, tid, cancelled, dry) ==
    LET fd == failed_dep(st, depends_on[tid]) IN
    IF fd # <<>>
    THEN [status |-> set_status(st, tid,
                         [state |-> "skipped", message |-> MsgSkipped(fd[1])]),
          launch |-> FALSE]
    ELSE IF dry
    THEN [status |-> set_status(st, tid, [state |-> "skipped", message |-> MsgDryRun]),
          launch |-> FALSE]
    ELSE [status |-> set_status(st, tid,
                         [state |-> "running", start_ts |-> "set", message |-> ""]),
          launch |-> TRUE]

\* One turn of the loop "for tid in final_order" up to the call of _execute,
\* and the first statement of _execute (state=running) when it is reached.
visit(st, tid, cancelled, dry) ==
    IF cancelled
    THEN [status |-> set_status(st, tid, [state |-> "canceled", message |-> MsgCanceled]),
          launch |-> FALSE]
    ELSE LET fd == failed_dep(st, depends_on[tid]) IN
         IF fd # <<>>
         THEN [status |-> set_status(st, tid,
                              [state |-> "skipped", message |-> MsgSkipped(fd[1])]),
               launch |-> FALSE]
         ELSE IF dry
         THEN [status |-> set_status(st, tid, [state |-> "skipped", message |-> MsgDryRun]),
               launch |-> FALSE]
         ELSE [status |-> set_status(st, tid,
                              [state |-> "running", start_ts |-> "set", message |-> ""]),
               launch |-> TRUE]

\* Mutant of exit_status: the exit code is looked at but not recorded.
exit_status_drops_rc(st, tid, rc) ==
    IF rc = 0
    THEN set_status(st, tid, [state |-> "ok", end_ts |-> "set"])
    ELSE set_status(st, tid, [state |-> "failed", end_ts |-> "set",
                              message |-> MsgRc(rc)])

\* Mutant of exit_status: the exit code is not looked at.
exit_status_always_ok(st, tid, rc) ==
    set_status(st, tid, [state |-> "ok", end_ts |-> "set", rc |-> <<rc>>])

\* _execute after proc.wait() returned rc (lines 262-268).
exit_status(st, tid, rc) ==
    IF rc = 0
    THEN set_status(st, tid, [state |-> "ok", end_ts |-> "set", rc |-> <<rc>>])
    ELSE set_status(st, tid, [state |-> "failed", end_ts |-> "set", rc |-> <<rc>>,
                              message |-> MsgRc(rc)])

\* _execute's except branch (lines 269-271).
fault_status(st, tid) ==
    set_status(st, tid, [state |-> "failed", end_ts |-> "set", message |-> MsgFault])

\* The same turn taken by an engine that started this run with an empty status
\* map and meets the same cancellation and the same process outcomes; where
\* only that engine launches a process, the process is taken to exit 0.
fresh_visit(fr, tid, cancelled, dry, faults, real_launch) ==
    LET v == visit(fr, tid, cancelled, dry) IN
    IF ~v.launch THEN v.status
    ELSE IF tid \in faults THEN fault_status(v.status, tid)
    ELSE IF real_launch THEN v.status
    ELSE exit_status(v.status, tid, 0)

\* The loop from position i until _execute suspends on a started child
\* (pc "exec") or the order is exhausted (pc "done").  create_subprocess_exec
\* spawns the child before it first suspends; for the ids in faults it raises.
RECURSIVE run_loop(_, _, _, _, _, _, _, _)
\* Mutant of run_loop: a launch that raises ends the run.
run_loop_abort_on_fault(st, fr, order, i, cancelled, dry, faults, launched) ==
    IF i > Len(order)
    THEN [status |-> st, fresh |-> fr, i |-> i, pc |-> "done", launched |-> launched]
    ELSE LET tid == order[i]
             v == visit(st, tid, cancelled, dry)
             g == fresh_visit(fr, tid, cancelled, dry, faults, v.launch)
         IN IF ~v.launch
            THEN run_loop(v.status, g, order, i + 1, cancelled, dry, faults, launched)
            ELSE IF tid \in faults
            THEN [status |-> fault_status(v.status, tid), fresh |-> g,
                  i |-> Len(order) + 1, pc |-> "done", launched |-> launched]
            ELSE [status |-> v.status, fresh |-> g, i |-> i, pc |-> "exec",
                  launched |-> launched \cup {tid}]

run_loop(st, fr, order, i, cancelled, dry, faults, launched) ==
    IF i > Len(order)
    THEN [status |-> st, fresh |-> fr, i |-> i, pc |-> "done", launched |-> launched]
    ELSE LET tid == order[i]
             v == visit(st, tid, cancelled, dry)
             g == fresh_visit(fr, tid, cancelled, dry, faults, v.launch)
         IN IF ~v.launch
            THEN run_loop(v.status, g, order, i + 1, cancelled, dry, faults, launched)
            ELSE IF tid \in faults
            THEN run_loop(fault_status(v.status, tid), g, order, i + 1,
                          cancelled, dry, faults, launched)
            ELSE [status |-> v.status, fresh |-> g, i |-> i, pc |-> "exec",
                  launched |-> launched \cup {tid}]

\* ------------------------------------------------------------ coroutines
NoOutcome == [kind |-> "none", rc |-> <<>>, tid |-> ""]

IdleFrame == [pc |-> "idle", final_order |-> <<>>, i |-> 0, dry_run |-> FALSE]

\* What a run has done so far: the ids it launched a process for, whether
\* cancellation was already requested when it started, the position it was
\* executing when cancellation was first requested (0: none), the outcome of
\* the last child it awaited and the task it belonged to, whether another run was
\* executing at any time during it, and the fresh engine's status map.
NoObs == [launched |-> {}, cancel_at_start |-> FALSE, cancel_idx |-> 0,
          out |-> NoOutcome, overlap |-> FALSE,
          fresh |-> [t \in Ids |-> TaskStatus(t)]]

\* TaskRunner.__init__, and no coroutine alive.
EngineInit ==
    /\ status = [t \in Ids |-> TaskStatus(t)]
    /\ cancel_event = FALSE
    /\ frames = [r \in Runs |-> IdleFrame]
    /\ obs = [r \in Runs |-> NoObs]

\* A finished coroutine is observed in pc "done" before it is discarded; run()
\* returning and _run ending are one uninterrupted stretch, so nothing else
\* happens while a frame is "done".
NoneDone == \A r \in Runs : frames[r].pc # "done"

\* The k-th run request of a behaviour takes frame k; a frame is not reused.
FreeFrame(r) ==
    /\ frames[r].pc = "idle"
    /\ \A q \in Runs : q < r => frames[q].pc # "idle"

\* Mutant of run: a new run clears the cancel flag before its loop.
run_clears_cancel(r, selected, dry, faults) ==
    LET order == final_order(depends_on, selected)
        res == run_loop(status, [t \in Ids |-> TaskStatus(t)], order, 1,
                        FALSE, dry, faults, {})
    IN /\ NoneDone
       /\ FreeFrame(r)
       /\ status' = res.status
       /\ cancel_event' = FALSE
       /\ frames' = [frames EXCEPT ![r] =
              [pc |-> res.pc, final_order |-> order, i |-> res.i, dry_run |-> dry]]
       /\ obs' = [obs EXCEPT ![r] =
              [launched |-> res.launched, cancel_at_start |-> cancel_event,
               cancel_idx |-> 0, out |-> NoOutcome, overlap |-> FALSE,
               fresh |-> res.fresh]]
       /\ UNCHANGED <<depends_on, lin>>

\* Mutant of run: the entries of the tasks outside the order are reset.
run_resets_status(r, selected, dry, faults) ==
    LET order == final_order(depends_on, selected)
        res == run_loop(status, [t \in Ids |-> TaskStatus(t)], order, 1,
                        cancel_event, dry, faults, {})
    IN /\ NoneDone
       /\ FreeFrame(r)
       /\ status' = [t \in Ids |->
                        IF t \in Range(order) THEN res.status[t] ELSE TaskStatus(t)]
       /\ frames' = [frames EXCEPT ![r] =
              [pc |-> res.pc, final_order |-> order, i |-> res.i, dry_run |-> dry]]
       /\ obs' = [obs EXCEPT ![r] =
              [launched |-> res.launched, cancel_at_start |-> cancel_event,
               cancel_idx |-> 0, out |-> NoOutcome, overlap |-> FALSE,
               fresh |-> res.fresh]]
       /\ UNCHANGED <<depends_on, cancel_event, lin>>

\* Mutant of run: the dry-run flag is dropped.
run_ignores_dry(r, selected, dry, faults) ==
    LET order == final_order(depends_on, selected)
        res == run_loop(status, [t \in Ids |-> TaskStatus(t)], order, 1,
                        cancel_event, FALSE, faults, {})
    IN /\ NoneDone
       /\ FreeFrame(r)
       /\ status' = res.status
       /\ frames' = [frames EXCEPT ![r] =
              [pc |-> res.pc, final_order |-> order, i |-> res.i, dry_run |-> dry]]
       /\ obs' = [obs EXCEPT ![r] =
              [launched |-> res.launched, cancel_at_start |-> cancel_event,
               cancel_idx |-> 0, out |-> NoOutcome, overlap |-> FALSE,
               fresh |-> res.fresh]]
       /\ UNCHANGED <<depends_on, cancel_event, lin>>

\* TaskRunner.run from its first line to its first suspension or its return.
run(r, selected, dry, faults) ==
    LET order == final_order(depends_on, selected)
        res == run_loop(status, [t \in Ids |-> TaskStatus(t)], order, 1,
                        cancel_event, dry, faults, {})
    IN /\ NoneDone
       /\ FreeFrame(r)
       /\ status' = res.status
       /\ frames' = [frames EXCEPT ![r] =
              [pc |-> res.pc, final_order |-> order, i |-> res.i, dry_run |-> dry]]
       /\ obs' = [q \in Runs |->
              IF q = r
              THEN [launched |-> res.launched, cancel_at_start |-> cancel_event,
                    cancel_idx |-> 0, out |-> NoOutcome,
                    overlap |-> \E o \in Runs : frames[o].pc = "exec",
                    fresh |-> res.fresh]
              ELSE IF frames[q].pc = "exec" THEN [obs[q] EXCEPT !.overlap = TRUE]
              ELSE obs[q]]
       /\ UNCHANGED <<depends_on, cancel_event, lin>>

\* TasksView._selected_ids: the ticked ids, in definition order.
selected_ids(ticked) == SelectSeq(TaskIds, LAMBDA t : t \in ticked)

\* "x or all": Python's or on a list.
or_all(sel) == IF sel # <<>> THEN sel ELSE TaskIds

\* Button "run": RunRequested(self._selected_ids(), dry_run=False).
ButtonRun(r) ==
    \E ticked \in SUBSET Ids, faults \in FaultSets :
        run(r, selected_ids(ticked), FALSE, faults)

\* Button "run_all": RunRequested(list(self._tasks.keys()), dry_run=False).
ButtonRunAll(r) ==
    \E faults \in FaultSets : run(r, TaskIds, FALSE, faults)

\* Button "dry_run": RunRequested(self._selected_ids() or all, dry_run=True).
ButtonDryRun(r) ==
    \E ticked \in SUBSET Ids, faults \in FaultSets :
        run(r, or_all(selected_ids(ticked)), TRUE, faults)

\* Key "r": action_run_selected.
ActionRunSelected(r) ==
    \E ticked \in SUBSET Ids, faults \in FaultSets :
        run(r, or_all(selected_ids(ticked)), FALSE, faults)

\* Key "a": action_run_all.
ActionRunAll(r) ==
    \E faults \in FaultSets : run(r, TaskIds, FALSE, faults)

\* TaskRunner.cancel (button "cancel").  The history notes which task each
\* suspended run was executing when cancellation was first requested.
cancel ==
    /\ NoneDone
    /\ cancel_event' = TRUE
    /\ obs' = [r \in Runs |->
                 IF frames[r].pc = "exec" /\ ~cancel_event
                 THEN [obs[r] EXCEPT !.cancel_idx = frames[r].i]
                 ELSE obs[r]]
    /\ UNCHANGED <<depends_on, status, frames, lin>>

\* The rest of _execute once the child is gone, and the loop that follows.
resume(r, st, fr, outcome, faults) ==
    LET f == frames[r]
        res == run_loop(st, fr, f.final_order, f.i + 1, cancel_event, f.dry_run,
                        faults, obs[r].launched)
    IN /\ status' = res.status
       /\ frames' = [frames EXCEPT ![r] = [f EXCEPT !.pc = res.pc, !.i = res.i]]
       /\ obs' = [obs EXCEPT ![r] = [@ EXCEPT !.launched = res.launched,
                                              !.out = outcome,
                                              !.fresh = res.fresh]]
       /\ UNCHANGED <<depends_on, cancel_event, lin>>

\* The fresh engine finishes the task with the same outcome if it launched it.
fresh_exit(fr, tid, rc) ==
    IF fr[tid].state = "running" THEN exit_status(fr, tid, rc) ELSE fr

fresh_fault(fr, tid) ==
    IF fr[tid].state = "running" THEN fault_status(fr, tid) ELSE fr

\* The child exits with code rc: proc.wait() returns (lines 262-268).
ProcExit(r) ==
    /\ NoneDone
    /\ frames[r].pc = "exec"
    /\ \E rc \in ExitCodes, faults \in FaultSets :
          LET tid == frames[r].final_order[frames[r].i] IN
          resume(r, exit_status(status, tid, rc), fresh_exit(obs[r].fresh, tid, rc),
                 [kind |-> "exit", rc |-> <<rc>>, tid |-> tid], faults)

\* Reading the child's output raises (lines 260, 269-271).
StreamFault(r) ==
    /\ NoneDone
    /\ frames[r].pc = "exec"
    /\ \E faults \in FaultSets :
          LET tid == frames[r].final_order[frames[r].i] IN
          resume(r, fault_status(status, tid), fresh_fault(obs[r].fresh, tid),
                 [kind |-> "fault", rc |-> <<>>, tid |-> tid], faults)

\* MainApp._run after run() returned: the coroutine ends.
Return(r) ==
    /\ frames[r].pc = "done"
    /\ frames' = [frames EXCEPT ![r] = [IdleFrame EXCEPT !.pc = "returned"]]
    /\ obs' = [obs EXCEPT ![r] = NoObs]
    /\ UNCHANGED <<depends_on, status, cancel_event, lin>>

\* ------------------------------------------------------------ Spec (engine)
NoDeps == [t \in Ids |-> <<>>]

\* Definition lists the engine is run on.  Chain is the shape TaskRegistry.build
\* produces (each task depends on the one before it).
Chain == [NoDeps EXCEPT !["b"] = <<"a">>, !["c"] = <<"b">>]
JoinRev == [NoDeps EXCEPT !["c"] = <<"b", "a">>]
Dangling == [NoDeps EXCEPT !["b"] = <<Unknown, "a">>]
SelfLoop == [NoDeps EXCEPT !["a"] = <<"a">>]
Cycle == [NoDeps EXCEPT !["a"] = <<"b">>, !["b"] = <<"a">>]

DefSets == {Chain, JoinRev, Dangling, SelfLoop, Cycle}

LinOff == [phase |-> "off", selected |-> <<>>, order |-> <<>>, visits |-> <<>>]

Init ==
    /\ depends_on \in DefSets
    /\ lin = LinOff
    /\ EngineInit

Next ==
    \/ \E r \in Runs : ButtonRun(r)
    \/ \E r \in Runs : ButtonRunAll(r)
    \/ \E r \in Runs : ButtonDryRun(r)
    \/ \E r \in Runs : ActionRunSelected(r)
    \/ \E r \in Runs : ActionRunAll(r)
    \/ cancel
    \/ \E r \in Runs : ProcExit(r)
    \/ \E r \in Runs : StreamFault(r)
    \/ \E r \in Runs : Return(r)

Spec == Init /\ [][Next]_vars

\* Every child a run awaits eventually exits (proc.wait() returns), and a
\* coroutine whose run() has returned ends: the event loop resumes a
\* coroutine whose awaited future is done.
SpecLive ==
    Spec /\ \A r \in Runs : WF_vars(ProcExit(r)) /\ WF_vars(Return(r))

\* ------------------------------------------------------ SpecLin (scheduler)
DepLists == {s \in SeqsUpTo(AnyId, MaxDeps) : Distinct(s)}

Requests == SeqsUpTo(AnyId, MaxReq)

LinInit ==
    /\ depends_on \in [Ids -> DepLists]
    /\ lin = LinOff
    /\ EngineInit

\* The linearize step of TaskRunner.run (lines 201-224) applied to a request.
Linearize ==
    /\ lin.phase = "off"
    /\ \E s \in Requests :
          lin' = [phase |-> "ordered", selected |-> s,
                  order |-> final_order(depends_on, s),
                  visits |-> traversal(depends_on, s).visits]
    /\ UNCHANGED <<depends_on, status, cancel_event, frames, obs>>

LinNext == Linearize

SpecLin == LinInit /\ [][LinNext]_vars

\* The ids the request stands for: the requested ids that are defined, or
\* every defined id when the request is empty (line 202).
Requested ==
    IF lin.selected = <<>> THEN Ids ELSE Range(lin.selected) \cap Ids

(* C2: on an acyclic definition set, for every request list, the computed  *)
(* order holds exactly the requested (defined) ids and their transitive    *)
(* in-set prerequisites, each once, every id after all of its in-set       *)
(* prerequisites, and never an id that is not in the definition set.       *)
C2_LinearizeCorrect ==
    (lin.phase = "ordered" /\ Acyclic(depends_on)) =>
        /\ Range(lin.order) = Closure(depends_on, Requested)
        /\ Len(lin.order) = Cardinality(Range(lin.order))
        /\ \A t \in Range(lin.order) : \A d \in Ids :
               Edge(depends_on, t, d) =>
                   /\ d \in Range(lin.order)
                   /\ IndexOf(lin.order, d) < IndexOf(lin.order, t)
        /\ Unknown \notin Range(lin.order)

\* C2's case: a request for c alone pulls in its transitive prerequisites
\* a and b, while c's dangling prerequisite and an unknown request are dropped.
C2_Witness ==
    /\ lin.phase = "ordered"
    /\ Acyclic(depends_on)
    /\ lin.selected = <<"c", Unknown>>
    /\ depends_on["c"] = <<Unknown, "b">>
    /\ depends_on["b"] = <<"a">>
    /\ lin.order = <<"a", "b", "c">>

\* ------------------------------------------------------------- the claims
\* A run is observed at its return: frame r is "done".
Done(r) == frames[r].pc = "done"

Order(r) == frames[r].final_order

\* No other run was executing at any time during run r.
Solo(r) == ~obs[r].overlap

\* The task left "failed" by a non-zero exit code (message "rc=<code>").
ExitedNonZero(t) ==
    /\ status[t].state = "failed"
    /\ \E c \in ExitCodes \ {0} : status[t].message = MsgRc(c) /\ status[t].rc = <<c>>

\* In the step taken, run r started or resumed its loop ...
Steps(r) == frames'[r] # frames[r] /\ frames'[r].pc \in {"exec", "done"}

\* ... and these are the tasks whose turn the loop took in that step.
Turns(r) ==
    LET first == IF frames[r].pc = "exec" THEN frames[r].i + 1 ELSE 1
        last == IF frames'[r].pc = "done" THEN Len(frames'[r].final_order)
                ELSE frames'[r].i
    IN {frames'[r].final_order[k] : k \in first..last}

(* C1: in a non-dry run with no cancellation (and no other run beside it), *)
(* when a task A has exited non-zero, every task of the order that depends *)
(* on A directly or transitively ends the run "skipped" and no process was *)
(* launched for it.                                                        *)
C1_DependentsSkipped ==
    \A r \in Runs :
        (Done(r) /\ Solo(r) /\ Acyclic(depends_on)
            /\ ~frames[r].dry_run /\ ~cancel_event) =>
            \A a \in Range(Order(r)) : \A t \in Range(Order(r)) :
                (ExitedNonZero(a) /\ a \in obs[r].launched
                    /\ a \in Prereqs(depends_on, t) /\ t # a) =>
                    /\ status[t].state = "skipped"
                    /\ t \notin obs[r].launched

(* C3: a run that starts after cancel() was called leaves every task of    *)
(* its resolved order "canceled" and launches no process, whatever the     *)
(* definitions, the selection and the dry-run flag.                        *)
C3_CancelBeforeRun ==
    \A r \in Runs :
        (Done(r) /\ obs[r].cancel_at_start) =>
            /\ obs[r].launched = {}
            /\ \A t \in Range(Order(r)) :
                  /\ status[t].state = "canceled"
                  /\ status[t].message = MsgCanceled

\* C3's case: cancel() came first, then a run over all three ids returned.
C3_Witness ==
    \E r \in Runs :
        /\ Done(r)
        /\ obs[r].cancel_at_start
        /\ Len(Order(r)) = 3
        /\ \A t \in Ids : status[t].state = "canceled"

(* C4: when cancel() is called while task B of the order is executing, B   *)
(* runs to its end and is left "ok" or "failed" by its outcome (ok exactly *)
(* on exit code 0), and every task after B in the order ends "canceled"    *)
(* with no process launched for it.                                        *)
C4_CancelDuringTask ==
    \A r \in Runs :
        (Done(r) /\ obs[r].cancel_idx > 0) =>
            LET k == obs[r].cancel_idx
                B == Order(r)[k]
            IN /\ obs[r].out.kind \in {"exit", "fault"}
               /\ status[B].state =
                     IF obs[r].out.rc = <<0>> THEN "ok" ELSE "failed"
               /\ \A j \in (k + 1)..Len(Order(r)) :
                     /\ status[Order(r)[j]].state = "canceled"
                     /\ Order(r)[j] \notin obs[r].launched

\* C4's case: cancel() came while the first of three tasks was executing; it
\* still ended ok and the two tasks after it were canceled.
C4_Witness ==
    \E r \in Runs :
        /\ Done(r)
        /\ obs[r].cancel_idx = 1
        /\ Len(Order(r)) = 3
        /\ status[Order(r)[1]].state = "ok"
        /\ status[Order(r)[3]].state = "canceled"

(* C5: at most one child process launched by the engine is alive at any    *)
(* time, for every sequence of run requests.                               *)
C5_OneProcessAtATime ==
    Cardinality({r \in Runs : frames[r].pc = "exec"}) <= 1

(* C6 as stated: a dry run (on an acyclic definition set) launches no      *)
(* process and leaves every task of its order "skipped" with message       *)
(* "Dry-run (skipped execution)".                                          *)
C6_DryRunAllSkipped ==
    \A r \in Runs :
        (Done(r) /\ frames[r].dry_run /\ Acyclic(depends_on)) =>
            /\ obs[r].launched = {}
            /\ \A t \in Range(Order(r)) :
                  /\ status[t].state = "skipped"
                  /\ status[t].message = MsgDryRun

(* C6 amended: a dry run launches no process; when cancellation had not    *)
(* been requested at its start every task of its order ends "skipped",     *)
(* with message "Dry-run (skipped execution)" on an acyclic definition     *)
(* set; when it had been requested every task ends "canceled".             *)
C6_DryRunAmended ==
    \A r \in Runs :
        (Done(r) /\ frames[r].dry_run) =>
            /\ obs[r].launched = {}
            /\ \A t \in Range(Order(r)) :
                  IF obs[r].cancel_at_start
                  THEN status[t].state = "canceled"
                  ELSE /\ status[t].state = "skipped"
                       /\ Acyclic(depends_on) => status[t].message = MsgDryRun

\* C6's case: a dry run of all three tasks returned after an earlier run had
\* really executed one of them.
C6_Witness ==
    \E r \in Runs :
        /\ Done(r)
        /\ frames[r].dry_run
        /\ ~obs[r].cancel_at_start
        /\ Len(Order(r)) = 3
        /\ \A t \in Ids : status[t].message = MsgDryRun
        /\ \E t \in Ids : status[t].end_ts = "set"

\* The fields of a TaskStatus a run can set.
SameStatus(x, y) ==
    /\ x.state = y.state
    /\ x.rc = y.rc
    /\ x.message = y.message
    /\ x.start_ts = y.start_ts
    /\ x.end_ts = y.end_ts

(* C7: at the return of a run (no other run beside it, acyclic             *)
(* definitions), the TaskStatus of every task it visited equals what a     *)
(* fresh engine produces for the same run and the same process outcomes.   *)
C7_RerunFromScratch ==
    \A r \in Runs :
        (Done(r) /\ Solo(r) /\ Acyclic(depends_on)) =>
            \A t \in Range(Order(r)) : SameStatus(status[t], obs[r].fresh[t])

(* C8: once cancel() has been called the flag stays set; from then on no   *)
(* run, current or later, launches a process, and every task whose turn    *)
(* comes is marked "canceled".                                             *)
C8_CancelPermanent ==
    [][cancel_event =>
          /\ cancel_event'
          /\ \A r \in Runs :
                /\ obs'[r].launched \subseteq obs[r].launched
                /\ Steps(r) => \A t \in Turns(r) : status'[t].state = "canceled"]_vars

\* C8's case: cancel() came during the first run; the second run, started
\* after the first returned, has marked its tasks canceled.
C8_Witness ==
    /\ cancel_event
    /\ frames[1].pc = "returned"
    /\ Done(2)
    /\ Len(Order(2)) >= 2
    /\ \E t \in Ids : status[t].state \in {"ok", "failed"}
    /\ \A t \in Range(Order(2)) : status[t].state = "canceled"

\* Some direct prerequisite of t is "failed" or "canceled" in st.
BadPrereq(st, t) ==
    \E d \in Range(depends_on[t]) : StatusGet(st, d).state \in {"failed", "canceled"}

(* C9 as stated: at the end of a run (no other run beside it, acyclic      *)
(* definitions), a task of the order is "skipped" if and only if one of    *)
(* its direct prerequisites is "failed" or "canceled".                     *)
C9_SkippedIff ==
    \A r \in Runs :
        (Done(r) /\ Solo(r) /\ Acyclic(depends_on)) =>
            \A t \in Range(Order(r)) :
                status[t].state = "skipped" <=> BadPrereq(status, t)

(* C9 amended: on an acyclic definition set, a run that is not a dry run   *)
(* leaves a task "skipped" at its turn if and only if cancellation has not *)
(* been requested and one of the task's direct prerequisites is "failed"   *)
(* or "canceled"; a dry run leaves it "skipped" if and only if             *)
(* cancellation has not been requested.                                    *)
C9_SkippedAmended ==
    [][\A r \in Runs :
          (Steps(r) /\ Acyclic(depends_on)) =>
              \A t \in Turns(r) :
                  status'[t].state = "skipped" <=>
                      /\ ~cancel_event
                      /\ frames'[r].dry_run \/ BadPrereq(status', t)]_vars

\* C9's case: in a run that was not a dry run, a task with two prerequisites
\* was skipped because the second one listed had failed.
C9_Witness ==
    \E r \in Runs :
        /\ Done(r)
        /\ ~frames[r].dry_run
        /\ depends_on["c"] = <<"b", "a">>
        /\ status["b"].state = "ok"
        /\ status["a"].state = "failed"
        /\ status["c"].message = MsgSkipped("a")
        /\ status["c"].state = "skipped"

\* Cancellation had been requested when run r took the turn at position k.
CancelSeen(r, k) ==
    \/ obs[r].cancel_at_start
    \/ obs[r].cancel_idx > 0 /\ k > obs[r].cancel_idx

(* C10: a task ends a run "canceled" if and only if cancellation had been  *)
(* requested before the loop reached its turn; a task whose process has    *)
(* started is never set to "canceled" (acyclic definitions).               *)
C10_CanceledIff ==
    \A r \in Runs : Acyclic(depends_on) =>
        /\ Done(r) =>
              \A k \in 1..Len(Order(r)) :
                  status[Order(r)[k]].state = "canceled" <=> CancelSeen(r, k)
        /\ frames[r].pc = "exec" => status[Order(r)[frames[r].i]].state # "canceled"

\* The states in which a run leaves a task it is done with.
Terminal == {"ok", "failed", "skipped", "canceled"}

\* Run r is suspended on the child of the task at its position i.
Executing(r) == frames[r].pc = "exec"

Current(r) == Order(r)[frames[r].i]

\* The tasks run r is done with: those before its position.
Passed(r) == {Order(r)[k] : k \in 1..(frames[r].i - 1)}

(* C11: within one run pass a task's state only moves forward.  At its     *)
(* turn the task goes to running, skipped or canceled (a launch that       *)
(* raises takes it from running to failed at once); the task being         *)
(* executed stays running until its child is gone and then goes to ok or   *)
(* failed; a task the pass is done with keeps its state until the pass     *)
(* ends.                                                                   *)
C11_StateMonotonic ==
    [][\A r \in Runs :
          /\ Executing(r) =>
                /\ \A t \in Passed(r) : status'[t].state = status[t].state
                /\ IF frames'[r] # frames[r]
                   THEN /\ status[Current(r)].state = "running"
                        /\ status'[Current(r)].state \in {"ok", "failed"}
                   ELSE status'[Current(r)].state = status[Current(r)].state
          /\ Steps(r) =>
                \A t \in Turns(r) :
                    \/ status'[t].state \in {"running", "skipped", "canceled"}
                    \/ status'[t].state = "failed" /\ status'[t].message = MsgFault]_vars

\* In the step taken, some task before t in run r's order is left "failed".
FailedBefore(r, t) ==
    \E k \in 1..Len(frames'[r].final_order) :
        /\ k < IndexOf(frames'[r].final_order, t)
        /\ status'[frames'[r].final_order[k]].state = "failed"

\* In the step taken, run r called _execute for t: its child was started, or
\* the launch raised.
Executed(r, t) ==
    \/ t \in obs'[r].launched \ obs[r].launched
    \/ /\ status'[t].state = "failed"
       /\ status'[t].message = MsgFault
       /\ status'[t].start_ts = "set"

(* C12 as stated: after a task of the order has ended "failed", the loop   *)
(* still takes the turn of every remaining task, and every remaining task  *)
(* none of whose prerequisites is failed is executed (acyclic definitions).*)
C12_FailureNoAbort ==
    [][\A r \in Runs :
          (Steps(r) /\ Acyclic(depends_on)) =>
              \A t \in Turns(r) :
                  FailedBefore(r, t) =>
                      /\ status'[t].state # "pending"
                      /\ ~BadPrereq(status', t) => Executed(r, t)]_vars

(* C12 amended: a failure never ends the run: after a task of the order    *)
(* has ended "failed" the loop still takes the turn of every remaining     *)
(* task, and, as long as cancellation has not been requested, every        *)
(* remaining task none of whose direct prerequisites is failed or canceled *)
(* is executed; once cancellation is requested the remaining tasks are     *)
(* marked "canceled" instead.                                              *)
C12_FailureNoAbortAmended ==
    [][\A r \in Runs :
          (Steps(r) /\ Acyclic(depends_on)) =>
              \A t \in Turns(r) :
                  FailedBefore(r, t) =>
                      /\ status'[t].state # "pending"
                      /\ IF cancel_event THEN status'[t].state = "canceled"
                         ELSE ~BadPrereq(status', t) => Executed(r, t)]_vars

\* C12's case: a run in which a task failed (its launch raised or it exited
\* non-zero) and a later task of the order was still executed and ended ok.
C12_Witness ==
    \E r \in Runs :
        /\ Done(r)
        /\ Solo(r)
        /\ ~cancel_event
        /\ \E a, t \in Range(Order(r)) :
              /\ IndexOf(Order(r), a) < IndexOf(Order(r), t)
              /\ status[a].state = "failed"
              /\ status[a].message \in {MsgFault, MsgRc(1)}
              /\ t \in obs[r].launched
              /\ status[t].state = "ok"

\* ------------------------------------------- the claims on the scheduler
\* The request reaches an id that is its own (transitive) prerequisite.
ReachesCycle ==
    \E t \in Closure(depends_on, Requested) : t \in Prereqs(depends_on, t)

(* C13 as stated: for a request that reaches a cycle of prerequisite edges *)
(* the traversal does not terminate, so no order is ever computed.         *)
C13_CycleNeverReturns ==
    ReachesCycle => lin.phase # "ordered"

(* C13 amended: for a request that reaches a cycle the traversal           *)
(* terminates (an id is marked seen before its prerequisites are followed):*)
(* the order holds the requested ids and their in-set transitive           *)
(* prerequisites, each once, every id after each of its in-set             *)
(* prerequisites that does not depend back on it; the cycle is not         *)
(* detected, and some id of it is placed no later than one of its own      *)
(* prerequisites.                                                          *)
C13_CycleTerminates ==
    (lin.phase = "ordered" /\ ReachesCycle) =>
        /\ Range(lin.order) = Closure(depends_on, Requested)
        /\ Len(lin.order) = Cardinality(Range(lin.order))
        /\ \A t \in Range(lin.order) : \A d \in Ids :
               (Edge(depends_on, t, d) /\ t \notin Prereqs(depends_on, d)) =>
                   IndexOf(lin.order, d) < IndexOf(lin.order, t)
        /\ \E t, d \in Range(lin.order) :
               /\ Edge(depends_on, t, d)
               /\ IndexOf(lin.order, t) <= IndexOf(lin.order, d)

\* C13's case: a and b are each other's prerequisite and a is requested; the
\* order is computed and puts b, which needs a, before a.
C13_Witness ==
    /\ lin.phase = "ordered"
    /\ depends_on["a"] = <<"b">>
    /\ depends_on["b"] = <<"a">>
    /\ lin.selected = <<"a">>
    /\ lin.order = <<"b", "a">>

\* Neither id is a (transitive) prerequisite of the other.
Unrelated(x, y) ==
    /\ x # y
    /\ x \notin Prereqs(depends_on, y)
    /\ y \notin Prereqs(depends_on, x)

(* C14: of two ids of the order with no (transitive) prerequisite relation *)
(* between them, the one the traversal of the request visited first comes  *)
(* first; and with a, b depending on a, c depending on b, the request [c]  *)
(* gives exactly [a, b, c].                                                *)
C14_FirstVisitOrder ==
    lin.phase = "ordered" =>
        /\ \A x, y \in Range(lin.order) :
               (Unrelated(x, y) /\ IndexOf(lin.visits, x) < IndexOf(lin.visits, y)) =>
                   IndexOf(lin.order, x) < IndexOf(lin.order, y)
        /\ (depends_on = Chain /\ lin.selected = <<"c">>) =>
               lin.order = <<"a", "b", "c">>

\* C14's case: c (which needs b) and a are requested in that order; a is
\* unrelated to both and is visited last, and comes last.
C14_Witness ==
    /\ lin.phase = "ordered"
    /\ depends_on = [NoDeps EXCEPT !["c"] = <<"b">>]
    /\ lin.selected = <<"c", "a">>
    /\ lin.visits = <<"c", "b", "a">>
    /\ lin.order = <<"b", "c", "a">>

(* C15: for an empty (or omitted) request the order is the one computed    *)
(* for the request of every id of the definition list in definition order: *)
(* every task is scheduled, not none.                                      *)
C15_EmptyMeansAll ==
    (lin.phase = "ordered" /\ lin.selected = <<>>) =>
        /\ lin.order = final_order(depends_on, TaskIds)
        /\ lin.visits = traversal(depends_on, TaskIds).visits
        /\ Range(lin.order) = Ids

\* C15's case: an empty request on definitions where a needs c: all three
\* ids are scheduled, c first.
C15_Witness ==
    /\ lin.phase = "ordered"
    /\ lin.selected = <<>>
    /\ depends_on = [NoDeps EXCEPT !["a"] = <<"c">>]
    /\ lin.order = <<"c", "a", "b">>

\* ------------------------------------------------ the claims on the engine
\* In the step taken, the child run r was awaiting exited and _execute went on.
Exited(r) ==
    /\ Executing(r)
    /\ frames'[r] # frames[r]
    /\ obs'[r].out.kind = "exit"

(* C16: when the process of an executed task exits, the task is left "ok"  *)
(* exactly when the exit code is 0 and "failed" with message "rc=<code>"   *)
(* otherwise, and the rc recorded in its TaskStatus is that exit code.     *)
C16_ExitCodeDecides ==
    [][\A r \in Runs :
          Exited(r) =>
              LET t == obs'[r].out.tid
                  code == obs'[r].out.rc[1]
              IN /\ t = Current(r)
                 /\ status'[t].rc = <<code>>
                 /\ status'[t].end_ts = "set"
                 /\ status'[t].state = IF code = 0 THEN "ok" ELSE "failed"
                 /\ code # 0 => status'[t].message = MsgRc(code)]_vars

\* C16's case: in one run a task exited 0 and was left ok, and a later one
\* exited 1 and was left failed with message "rc=1".
C16_Witness ==
    \E r \in Runs :
        /\ Done(r)
        /\ obs[r].out = [kind |-> "exit", rc |-> <<1>>, tid |-> "c"]
        /\ status["c"].state = "failed"
        /\ status["c"].message = "rc=1"
        /\ status["c"].rc = <<1>>
        /\ \E t \in obs[r].launched : status[t].state = "ok" /\ status[t].rc = <<0>>

\* Prerequisite d is "failed" or "canceled" after the step taken.
Bad(d) == StatusGet(status', d).state \in {"failed", "canceled"}

\* In the step taken, run r skipped t at its turn because of a prerequisite.
SkippedForPrereq(r, t) ==
    /\ Steps(r)
    /\ Acyclic(depends_on)
    /\ t \in Turns(r)
    /\ status'[t].state = "skipped"
    /\ BadPrereq(status', t)

(* C17 as stated: the message of a task skipped because of its             *)
(* prerequisites names, of its prerequisites that are "failed" or          *)
(* "canceled", the one that comes first in the definition list.            *)
C17_NamesFirstDefined ==
    [][\A r \in Runs : \A t \in Ids :
          SkippedForPrereq(r, t) =>
              \E d \in Range(depends_on[t]) \cap Ids :
                  /\ Bad(d)
                  /\ \A e \in Range(depends_on[t]) \cap Ids :
                         Bad(e) => IndexOf(TaskIds, d) <= IndexOf(TaskIds, e)
                  /\ status'[t].message = MsgSkipped(d)]_vars

(* C17 amended: the message names, of the task's prerequisites that are    *)
(* "failed" or "canceled", the one that comes first in the task's own      *)
(* depends_on list.                                                        *)
C17_NamesFirstListed ==
    [][\A r \in Runs : \A t \in Ids :
          SkippedForPrereq(r, t) =>
              \E k \in 1..Len(depends_on[t]) :
                  /\ Bad(depends_on[t][k])
                  /\ \A j \in 1..(k - 1) : ~Bad(depends_on[t][j])
                  /\ status'[t].message = MsgSkipped(depends_on[t][k])]_vars

\* C17's case: c lists its prerequisites as [b, a]; both failed, and c was
\* skipped with a message naming b.
C17_Witness ==
    \E r \in Runs :
        /\ Done(r)
        /\ depends_on["c"] = <<"b", "a">>
        /\ status["a"].state = "failed"
        /\ status["b"].state = "failed"
        /\ status["c"].state = "skipped"
        /\ status["c"].message = MsgSkipped("b")

\* In the step taken, run r set t to "running" at its turn.
SetRunning(r, t) ==
    /\ Steps(r)
    /\ t \in Turns(r)
    /\ Executed(r, t)

\* Every in-set direct prerequisite of t had its turn before t in run r and
\* is in a terminal state.
PrereqsTerminal(r, t) ==
    \A d \in Ids :
        Edge(depends_on, t, d) =>
            /\ IndexOf(frames'[r].final_order, d) \in 1..(IndexOf(frames'[r].final_order, t) - 1)
            /\ status'[d].state \in Terminal

(* C18: on an acyclic definition set, a task is set to "running" (its      *)
(* process launched) only after each of its in-set direct prerequisites    *)
(* has had its turn in the same run and is in a terminal state; it is      *)
(* never set to "running" while such a prerequisite is pending or running. *)
C18_LaunchAfterPrereqs ==
    [][\A r \in Runs : \A t \in Ids :
          (SetRunning(r, t) /\ Acyclic(depends_on)) => PrereqsTerminal(r, t)]_vars

(* C19: provided every launched process eventually exits, every run       *)
(* eventually returns, and at its return every task of its resolved order  *)
(* is in one of the states ok, failed, skipped, canceled: none is left     *)
(* pending or running.                                                     *)
C19_Completion ==
    /\ \A r \in Runs : Executing(r) ~> (frames[r].pc = "returned")
    /\ [](\A r \in Runs :
             Done(r) => \A t \in Range(Order(r)) : status[t].state \in Terminal)

(* C20: a step of a run changes the TaskStatus only of tasks of that run's *)
(* resolved order; the entry of every other id, entries left by earlier    *)
(* runs included, is unchanged; cancel() changes no TaskStatus, and        *)
(* nothing but a run's step changes one.                                   *)
C20_Frame ==
    [][/\ \A r \in Runs :
             Steps(r) =>
                 \A t \in Ids \ Range(frames'[r].final_order) : status'[t] = status[t]
       /\ cancel_event' # cancel_event => status' = status
       /\ (\A r \in Runs : ~Steps(r)) => status' = status]_vars

\* C20's case: the second run, started after the first returned, was for a
\* alone and has returned; the entry the first run left for b is still there.
C20_Witness ==
    /\ frames[1].pc = "returned"
    /\ Done(2)
    /\ Order(2) = <<"a">>
    /\ status["a"].state = "failed"
    /\ status["b"].state = "ok"
    /\ status["b"].rc = <<0>>

====
